---- MODULE Spec2Model ----
(***************************************************************************)
(* GitLab personal-access-token expiry check (main.py).                    *)
(*                                                                         *)
(* One run of main(): fetch the tokens, clear the report file, write the   *)
(* header, classify and render every token, read the report back and send  *)
(* it by SMTP.  The run is single-threaded; pc is the position of main().  *)
(*                                                                         *)
(* Time is counted in ticks, TicksPerDay ticks to the day, so that an      *)
(* instant is day * TicksPerDay + tick.  A timestamp string is the         *)
(* sequence of its syntactic parts (date, "T", time of day, "Z").          *)
(***************************************************************************)
EXTENDS Integers, Sequences, FiniteSets

VARIABLES pc, report, prev_report, tokens, i, now, status_code, exit_code,
          html_content, outbox, console, smtp_error, calls

vars == <<pc, report, prev_report, tokens, i, now, status_code, exit_code,
          html_content, outbox, console, smtp_error, calls>>

----------------------------------------------------------------------------
(* Bounds of the model *)

MaxTokens == 2
TicksPerDay == 2

(* Program constants *)

EXPIRY_THRESHOLD_DAYS == 30

----------------------------------------------------------------------------
(* Timestamp strings *)

Part(k, v) == [k |-> k, v |-> v]

DateOnly(d) == <<Part("date", d)>>
FullPrecision(d, t) == <<Part("date", d), Part("T", 0), Part("time", t), Part("Z", 0)>>
NoFraction(d, t) == <<Part("date", d), Part("T", 0), Part("time", t)>>
EmptyString == <<>>
NA == <<Part("N/A", 0)>>

(* A JSON value of the expires_at field: null or a string *)
JsonNull == [isNone |-> TRUE, str |-> <<>>]
JsonStr(s) == [isNone |-> FALSE, str |-> s]

Today == 1
ExpiryDays == {Today - 1, Today, Today + EXPIRY_THRESHOLD_DAYS, Today + EXPIRY_THRESHOLD_DAYS + 1}
Ticks == 0 .. (TicksPerDay - 1)
NowInstants == {Today * TicksPerDay + t : t \in Ticks}
PrevNow == (Today - 1) * TicksPerDay

(* full-precision values: every tick of the days at the two boundaries *)
BoundaryDays == {Today, Today + EXPIRY_THRESHOLD_DAYS}

ExpiresAtValues ==
    {JsonNull, JsonStr(EmptyString), JsonStr(NoFraction(Today, 0))}
        \cup {JsonStr(DateOnly(d)) : d \in ExpiryDays}
        \cup {JsonStr(FullPrecision(d, t)) : d \in BoundaryDays, t \in Ticks}

FULL_FORMAT == <<"date", "T", "time", "Z">>
DATE_FORMAT == <<"date">>

(* variant: a date-only string is taken as the last tick of its day *)
strptime_end_of_day(s, fmt) ==
    IF Len(s) = Len(fmt) /\ \A j \in 1 .. Len(fmt) : s[j].k = fmt[j]
    THEN [ok |-> TRUE,
          t  |-> s[1].v * TicksPerDay + (IF Len(fmt) >= 3 THEN s[3].v ELSE TicksPerDay - 1)]
    ELSE [ok |-> FALSE, t |-> 0]

(* datetime.strptime(s, fmt): the naive instant, or ValueError (ok = FALSE) *)
strptime(s, fmt) ==
    IF Len(s) = Len(fmt) /\ \A j \in 1 .. Len(fmt) : s[j].k = fmt[j]
    THEN [ok |-> TRUE,
          t  |-> s[1].v * TicksPerDay + (IF Len(fmt) >= 3 THEN s[3].v ELSE 0)]
    ELSE [ok |-> FALSE, t |-> 0]

(* try the full format, on ValueError the date-only format *)
parse_expiration(s) ==
    LET first == strptime(s, FULL_FORMAT)
    IN  IF first.ok THEN first ELSE strptime(s, DATE_FORMAT)

(* variant: "is not None" instead of the truth value *)
Truthy_is_not_None(e) == ~e.isNone

(* Python truth value of token['expires_at'] *)
Truthy(e) == ~e.isNone /\ Len(e.str) > 0

(* variant: whole days truncated toward zero *)
days_remaining_truncated(expiration_date, n) ==
    IF expiration_date >= n
    THEN (expiration_date - n) \div TicksPerDay
    ELSE -((n - expiration_date) \div TicksPerDay)

Status(text, n) == [text |-> text, n |-> n]

(* (expiration_date - now).days : timedelta.days is the floor *)
days_remaining(expiration_date, n) == (expiration_date - n) \div TicksPerDay

(* variant: exclusive upper bound *)
classify_exclusive(dr) ==
    IF dr < 0 THEN [text |-> "Expired (%d days ago)", n |-> -dr]
    ELSE IF dr < EXPIRY_THRESHOLD_DAYS THEN [text |-> "Will expire in %d days", n |-> dr]
    ELSE [text |-> "Active (%d days left)", n |-> dr]

classify(dr) ==
    IF dr < 0 THEN Status("Expired (%d days ago)", -dr)
    ELSE IF dr <= EXPIRY_THRESHOLD_DAYS THEN Status("Will expire in %d days", dr)
    ELSE Status("Active (%d days left)", dr)

NoExpiryStatus == Status("Active (No expiration date)", 0)

(* the status of a token whose expires_at is falsy or parses *)
token_status(e, n) ==
    IF Truthy(e)
    THEN classify(days_remaining(parse_expiration(e.str).t, n))
    ELSE NoExpiryStatus

(* the token's expires_at raises in both strptime calls *)
raises_ValueError(e) == Truthy(e) /\ ~parse_expiration(e.str).ok

----------------------------------------------------------------------------
(* Tokens returned by the API *)

Token(id, e) ==
    [id |-> id, name |-> "deploy", created_at |-> DateOnly(Today - 1), expires_at |-> e]

(* the ids of a response of n tokens: ascending or descending *)
IdOrders(n) == {[k \in 1 .. n |-> k], [k \in 1 .. n |-> n + 1 - k]}

TokenLists ==
    UNION {{[k \in 1 .. n |-> Token(ids[k], es[k])] :
                ids \in IdOrders(n), es \in [1 .. n -> ExpiresAtValues]} :
           n \in 0 .. MaxTokens}

StatusCodes == {200, 401, 404, 500}

NoExit == -1

----------------------------------------------------------------------------
(* Report file and console *)

H2Line(n) == [kind |-> "h2", now |-> n]
HrLine == [kind |-> "hr"]

render_block(token, status) ==
    [kind |-> "block", id |-> token.id, name |-> token.name,
     created_at |-> token.created_at,
     expires_at |-> IF Truthy(token.expires_at) THEN token.expires_at.str ELSE NA,
     status |-> status]

(* variant: the message is put in front of the file's content *)
log_prepend(file, message) == <<message>> \o file

(* open(REPORT_FILE, "a") ; write *)
log(file, message) == Append(file, message)

ConsoleMsg(msg) == [msg |-> msg, id |-> 0, status |-> NoExpiryStatus]
TokenMsg(token, status) == [msg |-> "Token ID", id |-> token.id, status |-> status]

PrevReports ==
    { <<>>,
      <<H2Line(PrevNow), HrLine,
        render_block(Token(1, JsonNull), NoExpiryStatus)>> }

Bump(c) == [calls EXCEPT ![c] = @ + 1]

----------------------------------------------------------------------------
Init ==
    /\ pc = "main"
    /\ prev_report \in PrevReports
    /\ report = prev_report
    /\ tokens = <<>>
    /\ i = 0
    /\ now = PrevNow
    /\ status_code = 0
    /\ exit_code = NoExit
    /\ html_content = <<>>
    /\ outbox = <<>>
    /\ console = <<>>
    /\ smtp_error = "none"
    /\ calls = [c \in {"get", "clear", "read", "connect", "sendmail"} |-> 0]

(* main: print, fetch_tokens() with a 200 response *)
FetchOk ==
    /\ pc = "main"
    /\ \E l \in TokenLists : tokens' = l
    /\ status_code' = 200
    /\ console' = Append(console, ConsoleMsg("Fetching"))
    /\ calls' = Bump("get")
    /\ pc' = "clear"
    /\ UNCHANGED <<report, prev_report, i, now, exit_code, html_content, outbox, smtp_error>>

(* variant: the error is printed and the response body is returned *)
FetchHttpErrorReturns ==
    /\ pc = "main"
    /\ \E s \in StatusCodes \ {200} :
        /\ status_code' = s
        /\ console' = console \o <<ConsoleMsg("Fetching"), ConsoleMsg("Error: status")>>
    /\ calls' = Bump("get")
    /\ pc' = "clear"
    /\ UNCHANGED <<report, prev_report, tokens, i, now, exit_code, html_content, outbox,
                   smtp_error>>

(* fetch_tokens: 404 or any other non-200 status: print and sys.exit(1) *)
FetchHttpError ==
    /\ pc = "main"
    /\ \E s \in StatusCodes \ {200} :
        /\ status_code' = s
        /\ console' = console \o <<ConsoleMsg("Fetching"),
                                   ConsoleMsg(IF s = 404 THEN "Error: 404 Not Found" ELSE "Error: status")>>
    /\ calls' = Bump("get")
    /\ exit_code' = 1
    /\ pc' = "exited"
    /\ UNCHANGED <<report, prev_report, tokens, i, now, html_content, outbox, smtp_error>>

(* fetch_tokens: requests.get raises (timeout, connection refused): uncaught *)
FetchNetworkError ==
    /\ pc = "main"
    /\ console' = console \o <<ConsoleMsg("Fetching"), ConsoleMsg("Traceback")>>
    /\ calls' = Bump("get")
    /\ exit_code' = 1
    /\ pc' = "crashed"
    /\ UNCHANGED <<report, prev_report, tokens, i, now, status_code, html_content, outbox,
                   smtp_error>>

(* variant: the file is opened for appending, not truncated *)
ClearReportAppendMode ==
    /\ pc = "clear"
    /\ calls' = Bump("clear")
    /\ pc' = "h2"
    /\ UNCHANGED <<report, prev_report, tokens, i, now, status_code, exit_code, html_content,
                   outbox, console, smtp_error>>

(* main: open(REPORT_FILE, "w") *)
ClearReport ==
    /\ pc = "clear"
    /\ report' = <<>>
    /\ calls' = Bump("clear")
    /\ pc' = "h2"
    /\ UNCHANGED <<prev_report, tokens, i, now, status_code, exit_code, html_content, outbox,
                   console, smtp_error>>

(* check_token_expiration: now = datetime.now(utc); log(<h2>...) *)
LogH2 ==
    /\ pc = "h2"
    /\ \E n \in NowInstants :
        /\ now' = n
        /\ report' = log(report, H2Line(n))
    /\ pc' = "hr"
    /\ UNCHANGED <<prev_report, tokens, i, status_code, exit_code, html_content, outbox,
                   console, smtp_error, calls>>

(* check_token_expiration: log("<hr>") *)
LogHr ==
    /\ pc = "hr"
    /\ report' = log(report, HrLine)
    /\ pc' = "loop"
    /\ UNCHANGED <<prev_report, tokens, i, now, status_code, exit_code, html_content, outbox,
                   console, smtp_error, calls>>

(* one iteration of the for loop: classify, log the block, print *)
ProcessToken ==
    /\ pc = "loop"
    /\ i < Len(tokens)
    /\ ~raises_ValueError(tokens[i + 1].expires_at)
    /\ LET token == tokens[i + 1]
           status == token_status(token.expires_at, now)
       IN  /\ report' = log(report, render_block(token, status))
           /\ console' = console \o <<TokenMsg(token, status), ConsoleMsg("-----")>>
    /\ i' = i + 1
    /\ UNCHANGED <<pc, prev_report, tokens, now, status_code, exit_code, html_content, outbox,
                   smtp_error, calls>>

(* variant: the ValueError is caught per token and the loop goes on *)
ProcessTokenSkipsBad ==
    /\ pc = "loop"
    /\ i < Len(tokens)
    /\ raises_ValueError(tokens[i + 1].expires_at)
    /\ console' = Append(console, ConsoleMsg("Bad date"))
    /\ i' = i + 1
    /\ UNCHANGED <<pc, report, prev_report, tokens, now, status_code, exit_code, html_content,
                   outbox, smtp_error, calls>>

(* one iteration of the for loop: both strptime calls raise ValueError, uncaught *)
ProcessTokenRaises ==
    /\ pc = "loop"
    /\ i < Len(tokens)
    /\ raises_ValueError(tokens[i + 1].expires_at)
    /\ console' = Append(console, ConsoleMsg("Traceback"))
    /\ exit_code' = 1
    /\ pc' = "crashed"
    /\ UNCHANGED <<report, prev_report, tokens, i, now, status_code, html_content, outbox,
                   smtp_error, calls>>

(* variant: the loop may be left before the last token *)
LoopDoneEarly ==
    /\ pc = "loop"
    /\ i <= Len(tokens)
    /\ console' = Append(console, ConsoleMsg("Token expiration check complete"))
    /\ pc' = "read"
    /\ UNCHANGED <<report, prev_report, tokens, i, now, status_code, exit_code, html_content,
                   outbox, smtp_error, calls>>

(* end of the loop, back in main: print "complete" *)
LoopDone ==
    /\ pc = "loop"
    /\ i = Len(tokens)
    /\ console' = Append(console, ConsoleMsg("Token expiration check complete"))
    /\ pc' = "read"
    /\ UNCHANGED <<report, prev_report, tokens, i, now, status_code, exit_code, html_content,
                   outbox, smtp_error, calls>>

(* send_email: read the report file, build the message *)
ReadReport ==
    /\ pc = "read"
    /\ html_content' = report
    /\ calls' = Bump("read")
    /\ pc' = "connect"
    /\ UNCHANGED <<report, prev_report, tokens, i, now, status_code, exit_code, outbox,
                   console, smtp_error>>

StepAfter(step) ==
    CASE step = "connect" -> "starttls"
      [] step = "starttls" -> "login"
      [] step = "login" -> "sendmail"
      [] step = "sendmail" -> "quit"
      [] OTHER -> "done"

(* the effect of a successful SMTP call *)
SmtpEffect(step) ==
    /\ outbox' = IF step = "sendmail" THEN Append(outbox, html_content) ELSE outbox
    /\ calls' = IF step \in {"connect", "sendmail"} THEN Bump(step) ELSE calls

(* variant: no handler, the exception leaves main *)
OnSmtpExceptionUncaught(step) ==
    /\ smtp_error' = step
    /\ console' = Append(console, ConsoleMsg("Traceback"))
    /\ exit_code' = 1
    /\ pc' = "crashed"

(* except Exception as e: print, return; main returns *)
OnSmtpException(step) ==
    /\ smtp_error' = step
    /\ console' = Append(console, ConsoleMsg("Failed to send email"))
    /\ exit_code' = 0
    /\ pc' = "done"

(* SMTP(), starttls(), login(), sendmail(), QUIT on leaving the with block *)
SmtpStepOk ==
    /\ pc \in {"connect", "starttls", "login", "sendmail", "quit"}
    /\ SmtpEffect(pc)
    /\ console' = IF pc = "sendmail" THEN Append(console, ConsoleMsg("Email sent")) ELSE console
    /\ pc' = StepAfter(pc)
    /\ exit_code' = IF pc = "quit" THEN 0 ELSE exit_code
    /\ UNCHANGED <<report, prev_report, tokens, i, now, status_code, html_content, smtp_error>>

(* an SMTP call raises: the call is made, has no effect, the handler runs *)
SmtpStepFails ==
    /\ pc \in {"connect", "starttls", "login", "sendmail", "quit"}
    /\ calls' = IF pc \in {"connect", "sendmail"} THEN Bump(pc) ELSE calls
    /\ OnSmtpException(pc)
    /\ UNCHANGED <<report, prev_report, tokens, i, now, status_code, html_content, outbox>>

Next ==
    \/ FetchOk
    \/ FetchHttpError
    \/ FetchNetworkError
    \/ ClearReport
    \/ LogH2
    \/ LogHr
    \/ ProcessToken
    \/ ProcessTokenRaises
    \/ LoopDone
    \/ ReadReport
    \/ SmtpStepOk
    \/ SmtpStepFails

Spec == Init /\ [][Next]_vars

----------------------------------------------------------------------------
(* Vocabulary of the properties *)

FetchSucceeded == status_code = 200

(* the for loop has been entered: the header is complete *)
HeaderWritten == pc \notin {"main", "clear", "h2", "hr", "exited"} /\ FetchSucceeded

(* the run went past the for loop *)
LoopFinished == pc \in {"read", "connect", "starttls", "login", "sendmail", "quit", "done"}

(* the block written for the k-th token *)
BlockOf(k) == report[k + 2]

(* the tokens of the loop's iterations that completed *)
Processed == IF HeaderWritten THEN 1 .. i ELSE {}

TokenLines == SelectSeq(console, LAMBDA m : m.msg = "Token ID")

(* the expiry instant of an expires_at value in one of the two formats *)
IsDateOnly(e) == \E d \in ExpiryDays : e = JsonStr(DateOnly(d))
IsFullPrecision(e) == \E d \in ExpiryDays, t \in Ticks : e = JsonStr(FullPrecision(d, t))
Parses(e) == IsDateOnly(e) \/ IsFullPrecision(e)
InstantOf(e) ==
    e.str[1].v * TicksPerDay + (IF IsFullPrecision(e) THEN e.str[3].v ELSE 0)

StatusTexts ==
    {"Expired (%d days ago)", "Will expire in %d days", "Active (%d days left)",
     "Active (No expiration date)"}

(* k-th token is the first whose expires_at matches neither format *)
Unparseable(e) == ~e.isNone /\ e.str # EmptyString /\ ~Parses(e)
FirstUnparseable(k) ==
    /\ k \in 1 .. Len(tokens)
    /\ Unparseable(tokens[k].expires_at)
    /\ \A j \in 1 .. (k - 1) : ~Unparseable(tokens[j].expires_at)

BlocksMatchTokens(n) ==
    /\ Len(report) = 2 + n
    /\ \A k \in 1 .. n : BlockOf(k).kind = "block" /\ BlockOf(k).id = tokens[k].id
    /\ Len(TokenLines) = n
    /\ \A k \in 1 .. n :
          TokenLines[k].id = tokens[k].id /\ TokenLines[k].status = BlockOf(k).status

----------------------------------------------------------------------------
(* C1, as stated: in every run in which fetch_tokens returned a token list,  *)
(* once the run has ended every token of the list has exactly one            *)
(* classification and exactly one block, in the order of the API.            *)
C1_EveryTokenOneBlock ==
    (FetchSucceeded /\ pc \in {"done", "crashed"}) => BlocksMatchTokens(Len(tokens))

(* C1, amended: the tokens whose iteration completed have exactly one        *)
(* classification and one block each, in the order of the API; these are all *)
(* tokens once the loop is finished, and the tokens before the first         *)
(* unparseable expires_at when the run was aborted by the parse error.       *)
C1_ProcessedTokensOneBlock ==
    HeaderWritten =>
        /\ BlocksMatchTokens(i)
        /\ LoopFinished => i = Len(tokens)
        /\ pc = "crashed" => FirstUnparseable(i + 1)

C1_Witness ==
    /\ pc = "done"
    /\ Len(tokens) >= 2
    /\ tokens[1].id > tokens[2].id
    /\ BlocksMatchTokens(Len(tokens))

(* C2: a status other than 200 ends the process at once with a non-zero exit *)
(* code, the report file is what the previous run left, and no SMTP call is  *)
(* made.                                                                     *)
C2_HttpErrorAborts ==
    (status_code # 0 /\ status_code # 200) =>
        /\ pc = "exited"
        /\ exit_code # 0 /\ exit_code # NoExit
        /\ report = prev_report
        /\ calls["clear"] = 0 /\ calls["read"] = 0
        /\ calls["connect"] = 0 /\ calls["sendmail"] = 0
        /\ outbox = <<>>

C2_Witness == status_code = 404 /\ pc = "exited" /\ prev_report # <<>> /\ report = prev_report

(* C3: a failure of any step of the email stage is caught and logged, the    *)
(* process ends with exit code 0, the report file keeps the header and one   *)
(* block per token, and nothing is sent again.                               *)
C3_EmailFailureIsLogged ==
    smtp_error # "none" =>
        /\ pc = "done"
        /\ exit_code = 0
        /\ console[Len(console)].msg = "Failed to send email"
        /\ Len(SelectSeq(console, LAMBDA m : m.msg = "Failed to send email")) = 1
        /\ report = html_content
        /\ report[1] = H2Line(now) /\ report[2] = HrLine
        /\ BlocksMatchTokens(Len(tokens))
        /\ calls["connect"] = 1 /\ calls["sendmail"] <= 1
        /\ Len(outbox) = (IF smtp_error = "quit" THEN 1 ELSE 0)

C3_Witness ==
    /\ smtp_error = "login"
    /\ pc = "done"
    /\ exit_code = 0
    /\ Len(tokens) >= 1
    /\ Len(report) = 2 + Len(tokens)

(* C4: a null expires_at gives "Active (No expiration date)"; an expiry in   *)
(* one of the formats gives Expired for days_remaining < 0, Will-expire for  *)
(* 0 <= days_remaining <= threshold and Active above the threshold; the      *)
(* status is one of the four.                                                *)
C4_Classification ==
    \A k \in Processed :
        LET e  == tokens[k].expires_at
            st == BlockOf(k).status
            dr == (InstantOf(e) - now) \div TicksPerDay
        IN  /\ st.text \in StatusTexts
            /\ e.isNone => st = Status("Active (No expiration date)", 0)
            /\ Parses(e) =>
                /\ dr < 0 => st.text = "Expired (%d days ago)"
                /\ (0 <= dr /\ dr <= EXPIRY_THRESHOLD_DAYS) =>
                       st = Status("Will expire in %d days", dr)
                /\ dr > EXPIRY_THRESHOLD_DAYS => st = Status("Active (%d days left)", dr)

C4_Witness ==
    \E k \in Processed :
        /\ Parses(tokens[k].expires_at)
        /\ (InstantOf(tokens[k].expires_at) - now) \div TicksPerDay = EXPIRY_THRESHOLD_DAYS
        /\ BlockOf(k).status.text = "Will expire in %d days"

(* C5, as stated: an expiry strictly before now is Expired with              *)
(* days_ago = floor(now - expiry) in whole days, at least 0.                 *)
C5_DaysAgoIsFloor ==
    \A k \in Processed :
        LET e == tokens[k].expires_at
        IN  (Parses(e) /\ InstantOf(e) < now) =>
                /\ BlockOf(k).status.text = "Expired (%d days ago)"
                /\ BlockOf(k).status.n = (now - InstantOf(e)) \div TicksPerDay
                /\ BlockOf(k).status.n >= 0

(* C5, amended: an expiry strictly before now is Expired with days_ago the   *)
(* number of days of now - expiry rounded up to a whole day, at least 1.     *)
C5_DaysAgoIsCeiling ==
    \A k \in Processed :
        LET e == tokens[k].expires_at
        IN  (Parses(e) /\ InstantOf(e) < now) =>
                /\ BlockOf(k).status.text = "Expired (%d days ago)"
                /\ BlockOf(k).status.n =
                       ((now - InstantOf(e)) + TicksPerDay - 1) \div TicksPerDay
                /\ BlockOf(k).status.n >= 1

C5_Witness ==
    \E k \in Processed :
        LET e == tokens[k].expires_at
        IN  /\ Parses(e)
            /\ InstantOf(e) < now
            /\ (now - InstantOf(e)) % TicksPerDay # 0
            /\ BlockOf(k).status = Status("Expired (%d days ago)", 1)

(* C6: the date-only form of a day and the full-precision form of midnight   *)
(* of that day get the same status and day count, and neither aborts the run *)
C6_DateOnlyIsMidnight ==
    /\ \A j, k \in Processed : \A d \in ExpiryDays :
          (/\ tokens[j].expires_at = JsonStr(DateOnly(d))
           /\ tokens[k].expires_at = JsonStr(FullPrecision(d, 0)))
              => BlockOf(j).status = BlockOf(k).status
    /\ (FetchSucceeded /\ pc = "crashed") => ~Parses(tokens[i + 1].expires_at)

C6_Witness ==
    \E j, k \in Processed :
        /\ tokens[j].expires_at = JsonStr(DateOnly(Today))
        /\ tokens[k].expires_at = JsonStr(FullPrecision(Today, 0))
        /\ now > Today * TicksPerDay
        /\ BlockOf(j).status = Status("Expired (%d days ago)", 1)
        /\ BlockOf(k).status = BlockOf(j).status

(* C7: at a token whose expires_at matches neither format the run ends with  *)
(* a non-zero exit code; that token and the tokens after it get no block and *)
(* no SMTP call is made.                                                     *)
C7_NoBlockFromBadToken ==
    \A k \in 1 .. Len(tokens) :
        (FetchSucceeded /\ Unparseable(tokens[k].expires_at)) =>
            /\ i < k
            /\ pc \in {"clear", "h2", "hr", "loop", "crashed"}
            /\ pc \notin {"clear"} => Len(report) <= 2 + (k - 1)
            /\ \A b \in 3 .. Len(report) : pc # "clear" => report[b].id # tokens[k].id
            /\ calls["read"] = 0 /\ calls["connect"] = 0 /\ calls["sendmail"] = 0
            /\ outbox = <<>>
            /\ pc = "crashed" => (exit_code = 1 /\ FirstUnparseable(i + 1))

C7_AbortsAtBadToken ==
    (pc = "loop" /\ i < Len(tokens) /\ Unparseable(tokens[i + 1].expires_at)) =>
        (pc' = "crashed" /\ exit_code' = 1 /\ report' = report /\ i' = i)

C7_ParseErrorIsFatal == [](C7_NoBlockFromBadToken) /\ [][C7_AbortsAtBadToken]_vars

C7_Witness ==
    /\ FetchSucceeded
    /\ pc = "crashed"
    /\ exit_code = 1
    /\ i + 1 < Len(tokens)
    /\ tokens[i + 1].expires_at = JsonStr(NoFraction(Today, 0))
    /\ Parses(tokens[i + 2].expires_at)
    /\ Len(report) = 2 + i

(* C8: after a successful fetch the file is cleared, then only appended to:  *)
(* once the header is written the file is this run's header followed by the  *)
(* blocks of the tokens processed so far, never what the previous run left   *)
(* and, after a crash in the loop, never empty.                              *)
ExpectedReport ==
    <<H2Line(now), HrLine>>
        \o [k \in 1 .. i |-> render_block(tokens[k], token_status(tokens[k].expires_at, now))]

C8_ReportOfThisRun ==
    /\ (FetchSucceeded /\ pc = "h2") => report = <<>>
    /\ (FetchSucceeded /\ pc = "hr") => report = <<H2Line(now)>>
    /\ HeaderWritten =>
          /\ report = ExpectedReport
          /\ now \in NowInstants
          /\ \A b \in 1 .. Len(report) : report[b] # H2Line(PrevNow)
          /\ pc = "crashed" => report # <<>>

C8_OnlyAppended ==
    (pc \notin {"main", "clear"}) =>
        \/ report' = report
        \/ Len(report') = Len(report) + 1 /\ SubSeq(report', 1, Len(report)) = report

C8_TruncateThenAppend == [](C8_ReportOfThisRun) /\ [][C8_OnlyAppended]_vars

C8_Witness ==
    /\ FetchSucceeded
    /\ pc = "crashed"
    /\ prev_report # <<>>
    /\ i >= 1
    /\ Len(report) = 2 + i
    /\ report[1] = H2Line(now)

(* C9: one fetch, finished before the one clearing of the file; the report   *)
(* is read once, after the header and the block of every token; sendmail is  *)
(* called at most once and what is sent is the complete report.              *)
C9_StagesInOrder ==
    /\ \A c \in DOMAIN calls : calls[c] <= 1
    /\ calls["clear"] = 1 => (calls["get"] = 1 /\ FetchSucceeded)
    /\ pc \notin {"main"} => calls["get"] = 1
    /\ calls["read"] = 1 =>
          /\ calls["clear"] = 1
          /\ i = Len(tokens)
          /\ html_content = report
          /\ report[1] = H2Line(now) /\ report[2] = HrLine
          /\ BlocksMatchTokens(Len(tokens))
    /\ calls["connect"] = 1 => calls["read"] = 1
    /\ calls["sendmail"] = 1 => calls["connect"] = 1
    /\ Len(outbox) <= calls["sendmail"]
    /\ \A m \in 1 .. Len(outbox) : outbox[m] = report

C9_Witness ==
    /\ pc = "done"
    /\ Len(outbox) = 1
    /\ Len(tokens) >= 2
    /\ outbox[1] = report
    /\ Len(report) = 2 + Len(tokens)

(* C10: an empty-string expires_at takes the no-expiry branch: status        *)
(* "Active (No expiration date)", 'N/A' in the block, no parse, no abort.    *)
C10_EmptyStringIsNoExpiry ==
    /\ \A k \in Processed :
          tokens[k].expires_at = JsonStr(EmptyString) =>
              /\ BlockOf(k).status = Status("Active (No expiration date)", 0)
              /\ BlockOf(k).expires_at = NA
    /\ (FetchSucceeded /\ pc = "crashed") => tokens[i + 1].expires_at # JsonStr(EmptyString)

C10_Witness ==
    /\ pc = "done"
    /\ \E k \in Processed :
          /\ tokens[k].expires_at = JsonStr(EmptyString)
          /\ BlockOf(k).expires_at = NA
          /\ BlockOf(k).status.text = "Active (No expiration date)"

====
